---- MODULE Spec2Model ----
(***************************************************************************)
(* Model of the AI Resume Tailor (src/app.py): the Streamlit script's      *)
(* session state, the submission handler with its three remote calls, the  *)
(* result display, and the line diff rendering (generate_diff_html, which  *)
(* delegates to difflib.Differ().compare of the Python standard library).  *)
(*                                                                         *)
(* Texts are sequences of one-character strings.  Optional values are      *)
(* None == <<>> or Some(v) == <<v>>.  Indices into Python sequences keep   *)
(* Python's 0-based half-open convention: x[i] in Python is x[i+1] here.   *)
(***************************************************************************)
EXTENDS Integers, Sequences, FiniteSets, TLC

\* ------------------------------------------------------------------------
\* Bounds
\* ------------------------------------------------------------------------
\* longest text drawn for the diff specification
MaxLen == 4
\* number of button presses followed in the pipeline specification
MaxSubmissions == 2

\* ------------------------------------------------------------------------
\* Python values
\* ------------------------------------------------------------------------
None == <<>>
Some(v) == <<v>>
Val(o) == o[1]

Min(S) == CHOOSE x \in S : \A y \in S : x <= y
Max(S) == CHOOSE x \in S : \A y \in S : x >= y

\* str.isspace() on the characters a text can hold
IsSpace(c) == c \in {" ", "\n", "\t"}

\* ------------------------------------------------------------------------
\* str.splitlines / str.strip / str.join
\* ------------------------------------------------------------------------
RECURSIVE splitlines(_, _)
splitlines(s, keepends) ==
    IF s = <<>> THEN <<>>
    ELSE LET brk == {i \in 1..Len(s) : s[i] = "\n"}
         IN  IF brk = {} THEN <<s>>
             ELSE LET i == Min(brk)
                      line == SubSeq(s, 1, IF keepends THEN i ELSE i - 1)
                  IN  <<line>> \o splitlines(SubSeq(s, i + 1, Len(s)), keepends)

strip(s) ==
    LET keep == {i \in 1..Len(s) : ~IsSpace(s[i])}
    IN  IF keep = {} THEN <<>> ELSE SubSeq(s, Min(keep), Max(keep))

rstrip(s) ==
    LET keep == {i \in 1..Len(s) : ~IsSpace(s[i])}
    IN  IF keep = {} THEN <<>> ELSE SubSeq(s, 1, Max(keep))

RECURSIVE join(_, _)
join(sep, lines) ==
    IF lines = <<>> THEN <<>>
    ELSE IF Len(lines) = 1 THEN lines[1]
    ELSE lines[1] \o sep \o join(sep, Tail(lines))

\* "\n".join([line.strip() for line in text.splitlines() if line.strip()])
NonBlankTrimmed(text) ==
    LET raw == splitlines(text, FALSE)
        stripped == [i \in 1..Len(raw) |-> strip(raw[i])]
        NonBlank(l) == l # <<>>
    IN  SelectSeq(stripped, NonBlank)

\* the text split and joined again with neither strip nor filter
cleaned_unfiltered(text) == join(<<"\n">>, splitlines(text, FALSE))

cleaned(text) == join(<<"\n">>, NonBlankTrimmed(text))

\* ------------------------------------------------------------------------
\* difflib.SequenceMatcher (isjunk=None; autojunk only acts on sequences of
\* 200 or more elements, beyond every sequence drawn here)
\* ------------------------------------------------------------------------
\* j2len: length of the longest match ending with a[i] and b[j] inside
\* a[alo:], b[blo:]
RECURSIVE j2len(_, _, _, _, _, _)
j2len(a, b, alo, blo, i, j) ==
    IF a[i + 1] # b[j + 1] THEN 0
    ELSE IF i > alo /\ j > blo THEN 1 + j2len(a, b, alo, blo, i - 1, j - 1)
    ELSE 1

\* the update `if k > bestsize` over the loops on i and j: k[<<i, j>>] is the
\* length of the match ending at (i, j); the result is the first (lowest i,
\* then lowest j) of the longest, or (alo, blo, 0) when nothing matches
best_match(k, alo, blo) ==
    LET hits == {e \in DOMAIN k : k[e] > 0}
    IN  IF hits = {} THEN <<alo, blo, 0>>
        ELSE LET bestsize == Max({k[e] : e \in hits})
                 longest == {e \in hits : k[e] = bestsize}
                 i == Min({e[1] : e \in longest})
                 j == Min({e[2] : e \in {x \in longest : x[1] = i}})
             IN  <<i - bestsize + 1, j - bestsize + 1, bestsize>>

\* Match(besti, bestj, bestsize)
find_longest_match(a, b, alo, ahi, blo, bhi) ==
    best_match([e \in (alo..(ahi - 1)) \X (blo..(bhi - 1)) |->
                   j2len(a, b, alo, blo, e[1], e[2])],
               alo, blo)

\* the queue loop of get_matching_blocks, in sorted order: the blocks of
\* a[alo:ahi] and b[blo:bhi], and those around the longest match x
RECURSIVE matching_blocks(_, _, _, _, _, _)
RECURSIVE blocks_around(_, _, _, _, _, _, _)
matching_blocks(a, b, alo, ahi, blo, bhi) ==
    blocks_around(a, b, alo, ahi, blo, bhi,
                  find_longest_match(a, b, alo, ahi, blo, bhi))

blocks_around(a, b, alo, ahi, blo, bhi, x) ==
    IF x[3] = 0 THEN <<>>
    ELSE (IF alo < x[1] /\ blo < x[2]
          THEN matching_blocks(a, b, alo, x[1], blo, x[2]) ELSE <<>>)
         \o <<x>>
         \o (IF x[1] + x[3] < ahi /\ x[2] + x[3] < bhi
             THEN matching_blocks(a, b, x[1] + x[3], ahi, x[2] + x[3], bhi)
             ELSE <<>>)

\* collapse adjacent blocks; cur is (i1, j1, k1)
RECURSIVE non_adjacent(_, _)
non_adjacent(blocks, cur) ==
    IF blocks = <<>> THEN (IF cur[3] > 0 THEN <<cur>> ELSE <<>>)
    ELSE LET nxt == Head(blocks)
         IN  IF cur[1] + cur[3] = nxt[1] /\ cur[2] + cur[3] = nxt[2]
             THEN non_adjacent(Tail(blocks), <<cur[1], cur[2], cur[3] + nxt[3]>>)
             ELSE (IF cur[3] > 0 THEN <<cur>> ELSE <<>>)
                  \o non_adjacent(Tail(blocks), nxt)

get_matching_blocks(a, b) ==
    non_adjacent(matching_blocks(a, b, 0, Len(a), 0, Len(b)), <<0, 0, 0>>)
        \o << <<Len(a), Len(b), 0>> >>

\* opcodes as <<tag, i1, i2, j1, j2>>
RECURSIVE opcodes_from(_, _, _)
opcodes_from(blocks, i, j) ==
    IF blocks = <<>> THEN <<>>
    ELSE LET ai == Head(blocks)[1]
             bj == Head(blocks)[2]
             size == Head(blocks)[3]
             tag == IF i < ai /\ j < bj THEN "replace"
                    ELSE IF i < ai THEN "delete"
                    ELSE IF j < bj THEN "insert"
                    ELSE ""
         IN  (IF tag # "" THEN << <<tag, i, ai, j, bj>> >> ELSE <<>>)
             \o (IF size > 0
                 THEN << <<"equal", ai, ai + size, bj, bj + size>> >> ELSE <<>>)
             \o opcodes_from(Tail(blocks), ai + size, bj + size)

get_opcodes(a, b) == opcodes_from(get_matching_blocks(a, b), 0, 0)

RECURSIVE SumSizes(_)
SumSizes(blocks) ==
    IF blocks = <<>> THEN 0 ELSE Head(blocks)[3] + SumSizes(Tail(blocks))

\* ratio() as the exact fraction <<numerator, denominator>> of
\* 2.0 * matches / length (1.0 when both sequences are empty)
ratio(a, b) ==
    IF Len(a) + Len(b) > 0
    THEN <<2 * SumSizes(get_matching_blocks(a, b)), Len(a) + Len(b)>>
    ELSE <<1, 1>>

\* p > q and p < q on fractions with positive denominators
FracGT(p, q) == p[1] * q[2] > q[1] * p[2]
FracLT(p, q) == p[1] * q[2] < q[1] * p[2]

\* ------------------------------------------------------------------------
\* difflib.Differ (linejunk=None, charjunk=None), as in CPython 3.11
\* ------------------------------------------------------------------------
Rep(c, n) == [i \in 1..n |-> c]

\* '%s %s' % (tag, x[i]) for i in range(lo, hi)
_dump(tag, x, lo, hi) == [n \in 1..(hi - lo) |-> <<tag, " ">> \o x[lo + n]]

\* the replace whose second generator is lost when a is not the longer block
_plain_replace_first_only(a, alo, ahi, b, blo, bhi) ==
    IF bhi - blo < ahi - alo
    THEN _dump("+", b, blo, bhi) \o _dump("-", a, alo, ahi)
    ELSE _dump("-", a, alo, ahi)

_plain_replace(a, alo, ahi, b, blo, bhi) ==
    IF bhi - blo < ahi - alo
    THEN _dump("+", b, blo, bhi) \o _dump("-", a, alo, ahi)
    ELSE _dump("-", a, alo, ahi) \o _dump("+", b, blo, bhi)

\* one pass of the inner loop body of _fancy_replace on the pair (i, j) with
\* lines ai, bj.  real_quick_ratio and quick_ratio are upper bounds of ratio,
\* so the three-way test is ratio() > best_ratio.  -1 is an index not set.
pair_step(st, i, j, ai, bj) ==
    IF ai = bj
    THEN (IF st.eqi = -1 THEN [st EXCEPT !.eqi = i, !.eqj = j] ELSE st)
    ELSE IF FracGT(ratio(ai, bj), st.best_ratio)
    THEN [st EXCEPT !.best_ratio = ratio(ai, bj), !.best_i = i, !.best_j = j]
    ELSE st

\* the double loop of _fancy_replace (j outer, i inner), step n of
\* (bhi-blo)*(ahi-alo)
RECURSIVE best_pair(_, _, _, _, _, _, _, _)
best_pair(a, alo, ahi, b, blo, bhi, n, st) ==
    IF n = (bhi - blo) * (ahi - alo) THEN st
    ELSE best_pair(a, alo, ahi, b, blo, bhi, n + 1,
                   pair_step(st, alo + (n % (ahi - alo)),
                             blo + (n \div (ahi - alo)),
                             a[alo + (n % (ahi - alo)) + 1],
                             b[blo + (n \div (ahi - alo)) + 1]))

\* the atags/btags strings built from the intraline opcodes
RECURSIVE intraline_tags(_)
intraline_tags(ops) ==
    IF ops = <<>> THEN [atags |-> <<>>, btags |-> <<>>]
    ELSE LET op == Head(ops)
             la == op[3] - op[2]
             lb == op[5] - op[4]
             rest == intraline_tags(Tail(ops))
             at == CASE op[1] = "replace" -> Rep("^", la)
                     [] op[1] = "delete" -> Rep("-", la)
                     [] op[1] = "insert" -> <<>>
                     [] op[1] = "equal" -> Rep(" ", la)
             bt == CASE op[1] = "replace" -> Rep("^", lb)
                     [] op[1] = "delete" -> <<>>
                     [] op[1] = "insert" -> Rep("+", lb)
                     [] op[1] = "equal" -> Rep(" ", lb)
         IN  [atags |-> at \o rest.atags, btags |-> bt \o rest.btags]

_keep_original_ws(s, tag_s) ==
    [i \in 1..Min({Len(s), Len(tag_s)}) |->
        IF tag_s[i] = " " /\ IsSpace(s[i]) THEN s[i] ELSE tag_s[i]]

_qformat(aline, bline, atags0, btags0) ==
    LET atags == rstrip(_keep_original_ws(aline, atags0))
        btags == rstrip(_keep_original_ws(bline, btags0))
    IN  << <<"-", " ">> \o aline >>
        \o (IF atags # <<>> THEN << <<"?", " ">> \o atags \o <<"\n">> >> ELSE <<>>)
        \o << <<"+", " ">> \o bline >>
        \o (IF btags # <<>> THEN << <<"?", " ">> \o btags \o <<"\n">> >> ELSE <<>>)

\* the '-', '?', '+', '?' quad of a synch pair, from its intraline tags
quad(aelt, belt, tags) == _qformat(aelt, belt, tags.atags, tags.btags)

RECURSIVE _fancy_replace(_, _, _, _, _, _)
RECURSIVE _fancy_helper(_, _, _, _, _, _)
RECURSIVE synch(_, _, _, _, _, _, _)
_fancy_replace(a, alo, ahi, b, blo, bhi) ==
    synch(a, alo, ahi, b, blo, bhi,
          best_pair(a, alo, ahi, b, blo, bhi, 0,
                    [best_ratio |-> <<74, 100>>, best_i |-> -1,
                     best_j |-> -1, eqi |-> -1, eqj |-> -1]))

\* _fancy_replace after its search loop left `found`; the cutoff is 0.75
synch(a, alo, ahi, b, blo, bhi, found) ==
    LET close == ~FracLT(found.best_ratio, <<75, 100>>)
        best_i == IF close THEN found.best_i ELSE found.eqi
        best_j == IF close THEN found.best_j ELSE found.eqj
    IN  IF ~close /\ found.eqi = -1
        THEN _plain_replace(a, alo, ahi, b, blo, bhi)
        ELSE _fancy_helper(a, alo, best_i, b, blo, best_j)
             \o (IF close
                 THEN quad(a[best_i + 1], b[best_j + 1],
                           intraline_tags(get_opcodes(a[best_i + 1], b[best_j + 1])))
                 ELSE << <<" ", " ">> \o a[best_i + 1] >>)
             \o _fancy_helper(a, best_i + 1, ahi, b, best_j + 1, bhi)

_fancy_helper(a, alo, ahi, b, blo, bhi) ==
    IF alo < ahi
    THEN IF blo < bhi THEN _fancy_replace(a, alo, ahi, b, blo, bhi)
         ELSE _dump("-", a, alo, ahi)
    ELSE IF blo < bhi THEN _dump("+", b, blo, bhi)
    ELSE <<>>

RECURSIVE compare_ops(_, _, _)
compare_ops(a, b, ops) ==
    IF ops = <<>> THEN <<>>
    ELSE LET op == Head(ops)
             g == CASE op[1] = "replace" ->
                         _fancy_replace(a, op[2], op[3], b, op[4], op[5])
                    [] op[1] = "delete" -> _dump("-", a, op[2], op[3])
                    [] op[1] = "insert" -> _dump("+", b, op[4], op[5])
                    [] op[1] = "equal" -> _dump(" ", a, op[2], op[3])
         IN  g \o compare_ops(a, b, Tail(ops))

\* Differ().compare(a, b): the delta lines, each a two-character code
\* ("- ", "+ ", "  ", "? ") followed by the line
compare(a, b) == compare_ops(a, b, get_opcodes(a, b))

\* ------------------------------------------------------------------------
\* generate_diff_html: one span per delta line; the span's style is
\* "addition" (green), "deletion" (red) or "nochange" (light grey)
\* ------------------------------------------------------------------------
startswith(line, c1, c2) == Len(line) >= 2 /\ line[1] = c1 /\ line[2] = c2

span_style(line) ==
    IF startswith(line, "+", " ") THEN "addition"
    ELSE IF startswith(line, "-", " ") THEN "deletion"
    ELSE "nochange"

\* lines 178-184
html_diff(diff) ==
    [n \in 1..Len(diff) |-> [style |-> span_style(diff[n]), line |-> diff[n]]]

generate_diff_html(text1, text2) ==
    html_diff(compare(splitlines(text1, TRUE), splitlines(text2, TRUE)))

\* ------------------------------------------------------------------------
\* Values exchanged with the Gemini API
\* ------------------------------------------------------------------------
\* a value under a key of a parsed JSON object ("absent": no such key)
JNum(n) == [type |-> "number", num |-> n, words |-> <<>>]
JStr(w) == [type |-> "string", num |-> 0, words |-> w]
Absent == [type |-> "absent", num |-> 0, words |-> <<>>]

\* what json.loads can return: a dict with any of the two keys, a number, a
\* string (its words), a list of strings, a bool (num 1/0) or null
JObject(score, rev) ==
    [type |-> "object", num |-> 0, words |-> <<>>, ats_score |-> score, review |-> rev]
JBare(t, n, w) ==
    [type |-> t, num |-> n, words |-> w, ats_score |-> Absent, review |-> Absent]

ScoreValues == {Absent, JNum(0), JNum(87), JNum(150), JStr(<<"high">>)}
ReviewValues == {Absent, JStr(<<"Strong", "match">>), JNum(5)}

JsonValues ==
    {JObject(sc, rv) : sc \in ScoreValues, rv \in ReviewValues}
    \cup {JBare("number", 87, <<>>), JBare("number", 0, <<>>),
          JBare("string", 0, <<"ats_score", "and", "review">>),
          JBare("string", 0, <<"sorry">>),
          JBare("array", 0, <<"ats_score", "review">>),
          JBare("array", 0, <<>>),
          JBare("bool", 1, <<>>),
          JBare("null", 0, <<>>)}

\* the ways requests.post / raise_for_status / response.json() / the
\* candidates lookup can end (src/app.py:58-98)
FailureKinds ==
    {"HTTPError", "ConnectionError", "Timeout", "RequestException",
     "unexpected_structure", "Exception"}

\* texts the tailoring call and the uploaded file can hold
SampleTexts ==
    {<<"a">>, <<"a", "a", "\n", "\n", " ", "a", " ">>, <<"a", "a", "\n", "b">>}
\* keyword strings the extraction call can return
KeywordTexts == {<<>>, <<" ">>, <<"s", "q", "l">>}

NoJson == JBare("null", 0, <<>>)

Failure(k) == [kind |-> k, text |-> <<>>, wellformed |-> FALSE, json |-> NoJson]
TextContent(t) == [kind |-> "content", text |-> t, wellformed |-> FALSE, json |-> NoJson]
JsonContent(v) == [kind |-> "content", text |-> <<>>, wellformed |-> TRUE, json |-> v]
\* generated text that json.loads rejects
Malformed == [kind |-> "content", text |-> <<"{">>, wellformed |-> FALSE, json |-> NoJson]

KeywordResponses ==
    {Failure(k) : k \in FailureKinds} \cup {TextContent(t) : t \in KeywordTexts}
TailorResponses ==
    {Failure(k) : k \in FailureKinds} \cup {TextContent(t) : t \in SampleTexts \cup {<<>>}}
ReviewResponses ==
    {Failure(k) : k \in FailureKinds} \cup {Malformed} \cup {JsonContent(v) : v \in JsonValues}

\* json.loads(generated_content): null loads as None
json_loads(response) ==
    IF response.json.type = "null" THEN None ELSE Some(response.json)

\* call_gemini_api: the value returned and the st.error it emits ("" if none)
call_gemini_api(response, response_schema) ==
    IF response.kind # "content"
    THEN [ret |-> None, error |-> "api_error_" \o response.kind]
    ELSE IF response_schema
    THEN IF response.wellformed
         THEN [ret |-> json_loads(response), error |-> ""]
         ELSE [ret |-> None, error |-> "Failed to parse JSON response from Gemini API"]
    ELSE [ret |-> Some(response.text), error |-> ""]

\* the test `is not None` in place of the truth value
truthy_text_not_none(o) == o # None

\* Python truth value of an optional text (None and "" are false)
truthy_text(o) == o # None /\ Val(o) # <<>>

\* Python truth value of a loaded JSON value
truthy_json(o) ==
    /\ o # None
    /\ LET v == Val(o)
       IN  CASE v.type = "object" -> v.ats_score # Absent \/ v.review # Absent
             [] v.type = "number" -> v.num # 0
             [] v.type = "bool" -> v.num # 0
             [] v.type \in {"string", "array"} -> v.words # <<>>
             [] OTHER -> FALSE

\* `key in v` where it does not raise: key lookup on a dict, substring test
\* on a str, membership on a list
contains(v, key) ==
    CASE v.type = "object" ->
            IF key = "ats_score" THEN v.ats_score # Absent ELSE v.review # Absent
      [] v.type \in {"string", "array"} -> \E i \in 1..Len(v.words) : v.words[i] = key
      [] OTHER -> FALSE

\* `key in v` raises TypeError on a number or a bool
in_raises(v) == v.type \in {"number", "bool"}
\* v['ats_score'] raises TypeError on a str or a list
subscript_raises(v) == v.type # "object"

\* the guard without its test for 'review'
review_guard_score_only(rd) ==
    IF ~truthy_json(rd) THEN "skip"
    ELSE IF in_raises(Val(rd)) THEN "TypeError"
    ELSE IF ~contains(Val(rd), "ats_score") THEN "skip"
    ELSE "enter"

\* line 420: review_data and 'ats_score' in review_data and 'review' in
\* review_data, evaluated left to right: "skip", "enter" or "TypeError"
review_guard(rd) ==
    IF ~truthy_json(rd) THEN "skip"
    ELSE IF in_raises(Val(rd)) THEN "TypeError"
    ELSE IF ~contains(Val(rd), "ats_score") THEN "skip"
    ELSE IF ~contains(Val(rd), "review") THEN "skip"
    ELSE "enter"

\* ------------------------------------------------------------------------
\* State
\* ------------------------------------------------------------------------
VARIABLES
    tailored_resume,             \* st.session_state.tailored_resume
    review_data,                 \* st.session_state.review_data
    original_resume_content,     \* st.session_state.original_resume_content
    extracted_keywords_display,  \* st.session_state.extracted_keywords_display
    pc,                \* position of the script run
    tailoring_style,   \* the selectbox value read by the handler
    calls,             \* remote calls issued in this script run, in order
    notices,           \* st.error / st.warning messages of this script run
    shown,             \* result elements rendered in this script run
    diff_html,         \* the spans of generate_diff_html rendered in this run
    score_box,         \* the score and review rendered in this run
    uncaught,          \* an exception left the script run
    sub,               \* button presses so far
    origin             \* per session field: the submission that assigned it

vars == <<tailored_resume, review_data, original_resume_content,
          extracted_keywords_display, pc, tailoring_style, calls, notices,
          shown, diff_html, score_box, uncaught, sub, origin>>

session == <<tailored_resume, review_data, original_resume_content,
             extracted_keywords_display>>

Fields == {"tailored_resume", "review_data", "original_resume_content",
           "extracted_keywords_display"}

NoOrigin == [f \in Fields |-> 0]

\* a call record: the function, what its prompt embeds, and what the call
\* returned ("pending" until it returns, then "None", "empty" for "" or
\* "value")
Call(fn, guidance, instruction) ==
    [fn |-> fn, tailoring_guidance |-> guidance,
     keywords_instruction |-> instruction, result |-> "pending"]

Returned(cs, res) == [cs EXCEPT ![Len(cs)].result = res]

text_result(ret) ==
    IF ret = None THEN "None" ELSE IF Val(ret) = <<>> THEN "empty" ELSE "value"
json_result(ret) == IF ret = None THEN "None" ELSE "value"

\* lines 284-292 on a fresh session
Init ==
    /\ tailored_resume = None
    /\ review_data = None
    /\ original_resume_content = None
    /\ extracted_keywords_display = None
    /\ pc = "idle"
    /\ tailoring_style = "Standard"
    /\ calls = <<>>
    /\ notices = {}
    /\ shown = {}
    /\ diff_html = <<>>
    /\ score_box = None
    /\ uncaught = FALSE
    /\ sub = 0
    /\ origin = NoOrigin

\* what the form can hold when the button is pressed
UploadedFiles ==
    {None}
    \cup {Some([type |-> t, read |-> r]) :
            t \in {"text/plain", "application/pdf"},
            r \in {None} \cup {Some(x) : x \in SampleTexts \cup {<<>>}}}
    \cup {Some([type |-> "application/msword", read |-> None])}
JobTitles == {<<>>, <<"d", "e", "v">>}
JobDescriptions == {<<>>, <<"s", "q", "l">>}
TailoringStyles == {"Standard", "Concise", "Detailed"}

\* lines 343-349
tailoring_guidance(style) ==
    IF style = "Concise" THEN "concise"
    ELSE IF style = "Detailed" THEN "detailed"
    ELSE "balanced"

\* the instruction embedded whatever the keywords are
keywords_instruction_always(extracted_keywords) == Some(extracted_keywords)

\* lines 335-340: the keywords_instruction of the tailoring prompt, None for ""
keywords_instruction(extracted_keywords) ==
    IF extracted_keywords = <<>> THEN None ELSE Some(extracted_keywords)

\* lines 335-340: the text kept for display
keywords_display(extracted_keywords) ==
    IF extracted_keywords = <<>>
    THEN Some([found |-> FALSE, keywords |-> <<>>])
    ELSE Some([found |-> TRUE, keywords |-> extracted_keywords])

\* ------------------------------------------------------------------------
\* The button handler (lines 311-396)
\* ------------------------------------------------------------------------
\* a reset that clears the tailored resume only
reset_session_partial(cur) == [cur EXCEPT !.tailored_resume = None]

\* lines 313-316: the four session fields after the reset
reset_session(cur) ==
    [tailored_resume |-> None, review_data |-> None,
     original_resume_content |-> None, extracted_keywords_display |-> None]

\* the origin of the fields that kept a value across the reset
kept_origin(fresh) == [f \in Fields |-> IF fresh[f] = None THEN 0 ELSE origin[f]]

\* the button is pressed: a new script run starts, the session is reset
\* (313-316), the form is checked (318) and the file is read (320-330); on
\* success the run waits for the keyword call (333)
Submit(uploaded_file, job_title, job_description, style) ==
    /\ pc = "idle"
    /\ sub < MaxSubmissions
    /\ sub' = sub + 1
    /\ tailoring_style' = style
    /\ shown' = {}
    /\ diff_html' = <<>>
    /\ score_box' = None
    /\ uncaught' = FALSE
    /\ LET fresh == reset_session(
                      [tailored_resume |-> tailored_resume,
                       review_data |-> review_data,
                       original_resume_content |-> original_resume_content,
                       extracted_keywords_display |-> extracted_keywords_display])
       IN  IF uploaded_file = None \/ job_title = <<>> \/ job_description = <<>>
           THEN \* line 396
                /\ notices' = {"Please upload your resume, enter a job title, and paste the job description"}
                /\ tailored_resume' = fresh.tailored_resume
                /\ review_data' = fresh.review_data
                /\ original_resume_content' = fresh.original_resume_content
                /\ extracted_keywords_display' = fresh.extracted_keywords_display
                /\ origin' = kept_origin(fresh)
                /\ calls' = <<>>
                /\ pc' = "display"
           ELSE IF Val(uploaded_file).type \notin {"text/plain", "application/pdf"}
           THEN \* lines 326-327: st.error, then st.stop() ends the script run
                /\ notices' = {"Unsupported file type"}
                /\ tailored_resume' = fresh.tailored_resume
                /\ review_data' = fresh.review_data
                /\ original_resume_content' = fresh.original_resume_content
                /\ extracted_keywords_display' = fresh.extracted_keywords_display
                /\ origin' = kept_origin(fresh)
                /\ calls' = <<>>
                /\ pc' = "idle"
           ELSE IF Val(uploaded_file).read = None
           THEN \* decode / extract_text raised: the outer except (388-394)
                /\ notices' = {"An error occurred while processing the file"}
                /\ tailored_resume' = None
                /\ review_data' = None
                /\ original_resume_content' = None
                /\ extracted_keywords_display' = None
                /\ origin' = NoOrigin
                /\ calls' = <<>>
                /\ pc' = "display"
           ELSE \* line 330, then the keyword call of line 333
                /\ notices' = {}
                /\ tailored_resume' = fresh.tailored_resume
                /\ review_data' = fresh.review_data
                /\ original_resume_content' = Some(Val(Val(uploaded_file).read))
                /\ extracted_keywords_display' = fresh.extracted_keywords_display
                /\ origin' = [kept_origin(fresh) EXCEPT !["original_resume_content"] = sub + 1]
                /\ calls' = <<Call("extract_keywords", "", None)>>
                /\ pc' = "extract_keywords"

\* the keyword call returns (115-116), the display text and the prompt are
\* built (335-373) and the tailoring call is issued (376)
KeywordsReturn(response) ==
    /\ pc = "extract_keywords"
    /\ LET r == call_gemini_api(response, FALSE)
           extracted_keywords == IF truthy_text(r.ret) THEN Val(r.ret) ELSE <<>>
       IN  /\ extracted_keywords_display' = keywords_display(extracted_keywords)
           /\ origin' = [origin EXCEPT !["extracted_keywords_display"] = sub]
           /\ notices' = notices \cup (IF r.error = "" THEN {} ELSE {r.error})
           /\ calls' = Append(Returned(calls, text_result(r.ret)),
                              Call("tailor", tailoring_guidance(tailoring_style),
                                   keywords_instruction(extracted_keywords)))
    /\ pc' = "tailor"
    /\ UNCHANGED <<tailored_resume, review_data, original_resume_content,
                   tailoring_style, shown, diff_html, score_box, uncaught, sub>>

\* the tailoring call returns (376); with a text the review call is issued
\* (378-382), otherwise the failure is reported (383-386)
TailorReturn(response) ==
    /\ pc = "tailor"
    /\ LET r == call_gemini_api(response, FALSE)
       IN  IF truthy_text(r.ret)
           THEN /\ tailored_resume' = r.ret
                /\ review_data' = review_data
                /\ origin' = [origin EXCEPT !["tailored_resume"] = sub]
                /\ notices' = notices
                /\ calls' = Append(Returned(calls, text_result(r.ret)),
                                   Call("review", "", None))
                /\ pc' = "review"
           ELSE /\ tailored_resume' = None
                /\ review_data' = None
                /\ origin' = [origin EXCEPT !["tailored_resume"] = 0,
                                            !["review_data"] = 0]
                /\ notices' = notices
                              \cup (IF r.error = "" THEN {} ELSE {r.error})
                              \cup {"Failed to tailor resume"}
                /\ calls' = Returned(calls, text_result(r.ret))
                /\ pc' = "display"
    /\ UNCHANGED <<original_resume_content, extracted_keywords_display,
                   tailoring_style, shown, diff_html, score_box, uncaught, sub>>

\* the review call returns and its value is stored as it is (380-382)
ReviewReturn(response) ==
    /\ pc = "review"
    /\ LET r == call_gemini_api(response, TRUE)
       IN  /\ review_data' = r.ret
           /\ origin' = [origin EXCEPT !["review_data"] = IF r.ret = None THEN 0 ELSE sub]
           /\ notices' = notices \cup (IF r.error = "" THEN {} ELSE {r.error})
           /\ calls' = Returned(calls, json_result(r.ret))
    /\ pc' = "display"
    /\ UNCHANGED <<tailored_resume, original_resume_content,
                   extracted_keywords_display, tailoring_style, shown,
                   diff_html, score_box, uncaught, sub>>

\* ------------------------------------------------------------------------
\* The result display (lines 398-452), run at the end of every script run
\* ------------------------------------------------------------------------
\* lines 399-418: the elements rendered, the diff, and whether
\* original_resume_content.splitlines() raised on None
resume_block(tailored, original, keywords) ==
    IF ~truthy_text(tailored)
    THEN [shown |-> {}, diff |-> <<>>, raised |-> FALSE]
    ELSE LET info == IF keywords # None THEN {"keywords_info"} ELSE {}
         IN  IF original = None
             THEN [shown |-> info \cup {"tailored_resume"}, diff |-> <<>>,
                   raised |-> TRUE]
             ELSE [shown |-> info \cup {"tailored_resume", "diff", "download_resume"},
                   diff |-> generate_diff_html(cleaned(Val(original)),
                                               cleaned(Val(tailored))),
                   raised |-> FALSE]

\* lines 420-452: the elements rendered, the score box, and whether the guard
\* or the subscripts raised
review_block(rd) ==
    LET g == review_guard(rd)
    IN  IF g = "skip"
        THEN [shown |-> {}, box |-> None, raised |-> FALSE]
        ELSE IF g = "TypeError"
        THEN [shown |-> {}, box |-> None, raised |-> TRUE]
        ELSE IF subscript_raises(Val(rd))
        THEN [shown |-> {"review_subheader"}, box |-> None, raised |-> TRUE]
        ELSE [shown |-> {"review_subheader", "score", "review",
                         "download_review_txt", "download_review_json"},
              box |-> Some([ats_score |-> Val(rd).ats_score, review |-> Val(rd).review]),
              raised |-> FALSE]

\* the two blocks in sequence: the second is not reached when the first raised
render(top, bottom) ==
    IF top.raised
    THEN /\ shown' = top.shown
         /\ diff_html' = top.diff
         /\ score_box' = None
         /\ uncaught' = TRUE
    ELSE /\ shown' = top.shown \cup bottom.shown
         /\ diff_html' = top.diff
         /\ score_box' = bottom.box
         /\ uncaught' = bottom.raised

DisplayResults ==
    /\ pc = "display"
    /\ render(resume_block(tailored_resume, original_resume_content,
                           extracted_keywords_display),
              review_block(review_data))
    /\ pc' = "idle"
    /\ UNCHANGED <<session, tailoring_style, calls, notices, sub, origin>>

\* any other interaction (a widget edit, a download click) runs the script
\* again with the button not pressed: only the display block runs
Rerun ==
    /\ pc = "idle"
    /\ pc' = "display"
    /\ calls' = <<>>
    /\ notices' = {}
    /\ shown' = {}
    /\ diff_html' = <<>>
    /\ score_box' = None
    /\ uncaught' = FALSE
    /\ UNCHANGED <<session, tailoring_style, sub, origin>>

Next ==
    \/ \E f \in UploadedFiles, t \in JobTitles, d \in JobDescriptions,
          st \in TailoringStyles : Submit(f, t, d, st)
    \/ \E r \in KeywordResponses : KeywordsReturn(r)
    \/ \E r \in TailorResponses : TailorReturn(r)
    \/ \E r \in ReviewResponses : ReviewReturn(r)
    \/ DisplayResults
    \/ Rerun

Spec == Init /\ [][Next]_vars

\* ------------------------------------------------------------------------
\* The diff rendering on its own: a script run about to display an original
\* and a tailored text drawn from all texts of up to MaxLen characters, and
\* from a few longer pairs
\* ------------------------------------------------------------------------
Chars == {"a", " ", "\n"}
Texts == UNION {[1..n -> Chars] : n \in 0..MaxLen}

ExampleOriginal ==
    <<"E","n","g","i","n","e","e","r"," ","w","i","t","h"," ","P","y","t","h","o","n",
      " ","s","k","i","l","l","s",".","\n","\n",
      "W","o","r","k","e","d"," ","a","t"," ","A","c","m","e",".">>
ExampleTailored ==
    <<"S","e","n","i","o","r"," ","E","n","g","i","n","e","e","r"," ","w","i","t","h",
      " ","P","y","t","h","o","n"," ","a","n","d"," ","c","l","o","u","d",
      " ","s","k","i","l","l","s",".","\n",
      "W","o","r","k","e","d"," ","a","t"," ","A","c","m","e",".">>

ExamplePairs ==
    {<<ExampleOriginal, ExampleTailored>>,
     <<ExampleTailored, ExampleOriginal>>,
     <<ExampleOriginal, ExampleOriginal>>,
     <<<<"a","\n","b","\n","a">>, <<"b","\n","a","\n","a">>>>,
     <<<<"b","\n","a","\n","a">>, <<"a","\n","b","\n","a">>>>,
     <<<<"a","b","c","d">>, <<"a","b","x","d">>>>,
     <<<<"a","b","x","d">>, <<"a","b","c","d">>>>}

DiffPairs == (Texts \X (Texts \ {<<>>})) \cup ExamplePairs

DiffInit ==
    /\ \E p \in DiffPairs :
          /\ original_resume_content = Some(p[1])
          /\ tailored_resume = Some(p[2])
    /\ review_data = None
    /\ extracted_keywords_display = keywords_display(<<>>)
    /\ pc = "display"
    /\ tailoring_style = "Standard"
    /\ calls = <<>>
    /\ notices = {}
    /\ shown = {}
    /\ diff_html = <<>>
    /\ score_box = None
    /\ uncaught = FALSE
    /\ sub = 1
    /\ origin = [f \in Fields |-> IF f = "review_data" THEN 0 ELSE 1]

DiffNext == DisplayResults \/ Rerun

DiffSpec == DiffInit /\ [][DiffNext]_vars

\* ========================================================================
\* Properties of the submission pipeline (checked under Spec)
\* ========================================================================
ReviewElements ==
    {"review_subheader", "score", "review", "download_review_txt",
     "download_review_json"}
ResumeElements == {"tailored_resume", "diff", "download_resume"}

CallsOf(fn) == {i \in 1..Len(calls) : calls[i].fn = fn}

\* C1: the review call is issued only after the tailoring call of the same
\* submission has returned a non-empty text; when the tailoring call returned
\* None or an empty text, no review call is issued, the tailoring failure is
\* reported, and no tailored resume, diff or review is rendered.
C1_ReviewOnlyAfterTailoring ==
    /\ \A i \in CallsOf("review") :
          \E j \in CallsOf("tailor") : j < i /\ calls[j].result = "value"
    /\ \A j \in CallsOf("tailor") :
          calls[j].result \in {"None", "empty"} =>
              /\ CallsOf("review") = {}
              /\ "Failed to tailor resume" \in notices
              /\ shown \cap (ResumeElements \cup ReviewElements) = {}
              /\ diff_html = <<>>
              /\ score_box = None

\* a finished run whose tailoring call returned an empty text
W1_TailoringReturnedNothing ==
    /\ pc = "idle"
    /\ \E j \in CallsOf("tailor") : calls[j].result = "empty"
    /\ "Failed to tailor resume" \in notices

\* C2: once the keyword call has returned, whatever it returned, the
\* tailoring call is issued next, and its prompt embeds the keyword
\* instruction exactly when the keyword call returned a non-empty string.
C2_KeywordsNeverBlockTailoring ==
    /\ \A i \in CallsOf("extract_keywords") :
          calls[i].result # "pending" =>
              /\ i < Len(calls)
              /\ calls[i + 1].fn = "tailor"
              /\ (calls[i + 1].keywords_instruction # None) <=> (calls[i].result = "value")
    /\ \A i \in CallsOf("tailor") : i > 1 /\ calls[i - 1].fn = "extract_keywords"
    /\ pc \in {"tailor", "review"} => CallsOf("tailor") # {}

\* the keyword call failed and the tailoring call went out without instruction
W2_TailoringWithoutKeywords ==
    \E i \in CallsOf("tailor") :
        /\ calls[i - 1].result = "None"
        /\ calls[i].keywords_instruction = None

ObjectMissingField(rd) ==
    /\ rd # None
    /\ Val(rd).type = "object"
    /\ (Val(rd).ats_score = Absent \/ Val(rd).review = Absent)

\* C3: while the session holds a review object that lacks ats_score or lacks
\* review, no render shows a score, a review text or a review download, and a
\* score box is never rendered with one of the two missing.
C3_PartialReviewNeverShown ==
    /\ ObjectMissingField(review_data) =>
          /\ shown \cap ReviewElements = {}
          /\ score_box = None
    /\ score_box # None =>
          /\ Val(score_box).ats_score # Absent
          /\ Val(score_box).review # Absent

\* a finished render of a tailored resume whose review is {"ats_score": 87}
W3_ScoreWithoutReviewHeld ==
    /\ pc = "idle"
    /\ "tailored_resume" \in shown
    /\ review_data = Some(JObject(JNum(87), Absent))

\* C4: when tailoring succeeded and the review response is an object missing a
\* required field, the finished submission run has displayed a notice (the
\* claim: one saying the score/review could not be generated).
C4_MissingFieldNoticeShown ==
    ( /\ pc = "idle"
      /\ CallsOf("review") # {}
      /\ tailored_resume # None
      /\ ObjectMissingField(review_data) )
    => notices # {}

ValidReviewResult(v) ==
    /\ v.type = "object"
    /\ v.ats_score.type = "number"
    /\ v.ats_score.num >= 0
    /\ v.ats_score.num <= 100
    /\ v.review.type = "string"

\* C5: a review result held in the session is a validated ReviewResult
\* (ats_score an integer in 0..100, review a string), and so is every score
\* box rendered.
C5_HeldReviewIsValidated ==
    /\ review_data # None => ValidReviewResult(Val(review_data))
    /\ score_box # None =>
          /\ Val(score_box).ats_score.type = "number"
          /\ Val(score_box).ats_score.num >= 0
          /\ Val(score_box).ats_score.num <= 100
          /\ Val(score_box).review.type = "string"

\* C9: no outcome of the three remote calls lets an exception leave the
\* handler or the result display.
C9_NothingPropagatesUncaught == ~uncaught

Field(f) ==
    CASE f = "tailored_resume" -> tailored_resume
      [] f = "review_data" -> review_data
      [] f = "original_resume_content" -> original_resume_content
      [] f = "extracted_keywords_display" -> extracted_keywords_display

SessionFromLatestSubmission ==
    /\ \A f \in Fields : Field(f) # None => origin[f] = sub
    /\ review_data # None => (tailored_resume # None /\ Val(tailored_resume) # <<>>)
    /\ (tailored_resume # None /\ Val(tailored_resume) # <<>>)
          => original_resume_content # None

RerenderKeepsSession ==
    (pc \in {"idle", "display"} /\ sub' = sub) => session' = session

\* C10: every session field is None or was assigned by the latest submission;
\* review_data is held only with a non-empty tailored_resume, and that only
\* with an original_resume_content; a run without a button press changes none
\* of the four fields.
C10_SessionOverwrittenWholesale ==
    /\ []SessionFromLatestSubmission
    /\ [][RerenderKeepsSession]_vars

\* a second submission, rejected for missing form fields, has finished
W10_SecondSubmissionFinished ==
    /\ sub = 2
    /\ pc = "idle"
    /\ tailored_resume = None
    /\ review_data = None
    /\ "Please upload your resume, enter a job title, and paste the job description" \in notices

\* ========================================================================
\* Properties of the diff rendering (checked under DiffSpec)
\* ========================================================================
TextA == Val(original_resume_content)
TextB == Val(tailored_resume)

CountStyle(d, st) == Cardinality({n \in 1..Len(d) : d[n].style = st})

\* a delta line without its two-character code
Body(line) == SubSeq(line, 3, Len(line))
\* ... and without its line end
LineText(line) ==
    LET body == Body(line)
    IN  IF body # <<>> /\ body[Len(body)] = "\n"
        THEN SubSeq(body, 1, Len(body) - 1) ELSE body

SeqRange(q) == {q[n] : n \in 1..Len(q)}

\* C6: the rendering holds only lines of the two normalized inputs, each
\* styled unchanged, inserted or deleted; deleted + unchanged lines number
\* the non-blank lines of the first text, inserted + unchanged those of the
\* second; the example pair renders as one deleted, one inserted and one
\* unchanged line.
C6_OnlyInputLinesRendered ==
    "diff" \in shown =>
        /\ \A n \in 1..Len(diff_html) :
              LineText(diff_html[n].line)
                  \in SeqRange(NonBlankTrimmed(TextA)) \cup SeqRange(NonBlankTrimmed(TextB))
        /\ CountStyle(diff_html, "deletion") + CountStyle(diff_html, "nochange")
              = Len(NonBlankTrimmed(TextA))
        /\ CountStyle(diff_html, "addition") + CountStyle(diff_html, "nochange")
              = Len(NonBlankTrimmed(TextB))
        /\ (TextA = ExampleOriginal /\ TextB = ExampleTailored) =>
              /\ CountStyle(diff_html, "deletion") = 1
              /\ CountStyle(diff_html, "addition") = 1
              /\ CountStyle(diff_html, "nochange") = 1

SwapSpan(sp) ==
    IF sp.style = "addition"
    THEN [style |-> "deletion", line |-> <<"-", " ">> \o Body(sp.line)]
    ELSE IF sp.style = "deletion"
    THEN [style |-> "addition", line |-> <<"+", " ">> \o Body(sp.line)]
    ELSE sp

Swapped(d) == [n \in 1..Len(d) |-> SwapSpan(d[n])]

\* the rendering of the two texts in the other order
ReverseDiff == generate_diff_html(cleaned(TextB), cleaned(TextA))

\* C7 (as stated): the rendering of diff(B, A) is the rendering of diff(A, B)
\* with the inserted and deleted tags swapped.
C7_ReverseIsSwap ==
    "diff" \in shown => ReverseDiff = Swapped(diff_html)

\* the lines of a rendering that carry the given style or are unchanged
\* ("  " code), in order, without their code
SideLines(d, st) ==
    LET OnSide(sp) == sp.style = st \/ startswith(sp.line, " ", " ")
        kept == SelectSeq(d, OnSide)
    IN  [n \in 1..Len(kept) |-> Body(kept[n].line)]

\* C7 (amended): the deleted and unchanged lines of diff(A, B), in order, are
\* the inserted and unchanged lines of diff(B, A), in order (both are A's
\* normalized lines), and likewise for B with the roles exchanged.
C7_ReverseKeepsEachSide ==
    "diff" \in shown =>
        /\ SideLines(diff_html, "deletion") = splitlines(cleaned(TextA), TRUE)
        /\ SideLines(ReverseDiff, "addition") = SideLines(diff_html, "deletion")
        /\ SideLines(diff_html, "addition") = splitlines(cleaned(TextB), TRUE)
        /\ SideLines(ReverseDiff, "deletion") = SideLines(diff_html, "addition")

\* a rendering with a deleted, an inserted and an unchanged line whose
\* reverse is not its swap
W7_MixedDiffRendered ==
    /\ "diff" \in shown
    /\ CountStyle(diff_html, "deletion") > 0
    /\ CountStyle(diff_html, "addition") > 0
    /\ \E n \in 1..Len(diff_html) : startswith(diff_html[n].line, " ", " ")
    /\ ReverseDiff # Swapped(diff_html)

\* C8: a text diffed against itself renders every line unchanged, and the
\* rendered lines are, in order, the text's non-blank trimmed lines.
C8_SelfDiffAllUnchanged ==
    ("diff" \in shown /\ TextA = TextB) =>
        /\ Len(diff_html) = Len(NonBlankTrimmed(TextA))
        /\ \A n \in 1..Len(diff_html) :
              /\ diff_html[n].style = "nochange"
              /\ startswith(diff_html[n].line, " ", " ")
              /\ LineText(diff_html[n].line) = NonBlankTrimmed(TextA)[n]

\* a self-diff of a text with two lines that normalization changes
W8_SelfDiffRendered ==
    /\ "diff" \in shown
    /\ TextA = TextB
    /\ Len(diff_html) >= 2
    /\ cleaned(TextA) # TextA

IsProperPrefix(p, q) == Len(p) < Len(q) /\ SubSeq(q, 1, Len(p)) = p

\* the lines of a rendering with the "  " code, in order, without code and
\* line end
UnchangedTexts(d) ==
    LET Same(sp) == startswith(sp.line, " ", " ")
        kept == SelectSeq(d, Same)
    IN  [n \in 1..Len(kept) |-> LineText(kept[n].line)]

\* every line of `short` rendered unchanged, the extra lines of `long` in the
\* given style, and nothing else
PrefixRendering(d, short, long, st) ==
    /\ UnchangedTexts(d) = short
    /\ CountStyle(d, "nochange") = Len(short)
    /\ CountStyle(d, st) = Len(long) - Len(short)
    /\ Len(d) = Len(long)

\* C11: when the non-blank trimmed lines of one text are a proper prefix of
\* the other's, every line of the shorter sequence is rendered unchanged,
\* its last line included, and only the extra trailing lines are rendered
\* inserted (or deleted).
C11_SharedPrefixUnchanged ==
    "diff" \in shown =>
        /\ IsProperPrefix(NonBlankTrimmed(TextA), NonBlankTrimmed(TextB)) =>
              PrefixRendering(diff_html, NonBlankTrimmed(TextA),
                              NonBlankTrimmed(TextB), "addition")
        /\ IsProperPrefix(NonBlankTrimmed(TextB), NonBlankTrimmed(TextA)) =>
              PrefixRendering(diff_html, NonBlankTrimmed(TextB),
                              NonBlankTrimmed(TextA), "deletion")

====
